---- MODULE Spec2Model ----
(***************************************************************************)
(* A model of src/dashboard.py: the Strava dashboard script.  One run of   *)
(* the script reads activities.csv, normalizes it (load_data), offers the  *)
(* sidebar filters, filters the table, stops with a warning when nothing   *)
(* matches, and otherwise computes the KPIs and the four tabs.             *)
(*                                                                         *)
(* Cell values are IEEE doubles in the program.  Here a value is a record  *)
(* [k, n, d]: k = "num" is the exact rational n/d (d > 0, lowest terms),   *)
(* k = "nan" / "inf" / "ninf" are NaN, +infinity and -infinity.  Rounding  *)
(* error of the binary representation is not modelled.                     *)
(***************************************************************************)
EXTENDS Integers, Sequences, FiniteSets, TLC

VARIABLES
    pc,               \* position of the script run
    file_found,       \* whether activities.csv exists
    cols,             \* the column names of the csv header
    csv,              \* the rows of the csv, in file order
    df,               \* the normalized table load_data returns
    all_years,        \* options of the year selectbox
    selected_year,
    all_types,        \* options of the activity type multiselect
    selected_types,
    df_filtered,
    shown,            \* what st.error / st.warning put on the page
    computed,         \* the views computed so far in this run
    kpi,              \* the top-level metrics
    df_monthly_typed,
    df_cumulative,
    pivots,           \* the four heatmap tables of tab2
    df_summary,
    recent            \* the table of tab4

vars == <<pc, file_found, cols, csv, df, all_years, selected_year, all_types,
          selected_types, df_filtered, shown, computed, kpi, df_monthly_typed,
          df_cumulative, pivots, df_summary, recent>>

----------------------------------------------------------------------------
(* Floating-point values                                                   *)

Abs(i) == IF i < 0 THEN -i ELSE i

RECURSIVE GCD(_, _)
GCD(a, b) == IF b = 0 THEN a ELSE GCD(b, a % b)

\* the rational n/d in lowest terms, d # 0
Rat(n, d) ==
    LET s == IF d < 0 THEN -1 ELSE 1
        g == GCD(Abs(n), Abs(d))
    IN  [k |-> "num", n |-> (s * n) \div g, d |-> (s * d) \div g]

Int2F(i) == [k |-> "num", n |-> i, d |-> 1]
NaN    == [k |-> "nan",  n |-> 0, d |-> 1]
PosInf == [k |-> "inf",  n |-> 0, d |-> 1]
NegInf == [k |-> "ninf", n |-> 0, d |-> 1]
Zero   == Int2F(0)

IsNum(a) == a.k = "num"
IsNaN(a) == a.k = "nan"
IsInf(a) == a.k \in {"inf", "ninf"}

\* sign of a value that is not NaN: -1, 0 or 1
Sign(a) ==
    CASE a.k = "inf"  -> 1
      [] a.k = "ninf" -> -1
      [] OTHER        -> IF a.n > 0 THEN 1 ELSE IF a.n < 0 THEN -1 ELSE 0

Signed(s) == IF s > 0 THEN PosInf ELSE NegInf

\* a > b; every comparison with NaN is False
FGt(a, b) ==
    CASE IsNaN(a) \/ IsNaN(b) -> FALSE
      [] a.k = "inf"  -> b.k # "inf"
      [] a.k = "ninf" -> FALSE
      [] b.k = "inf"  -> FALSE
      [] b.k = "ninf" -> TRUE
      [] OTHER        -> a.n * b.d > b.n * a.d

FGe(a, b) == ~IsNaN(a) /\ ~IsNaN(b) /\ ~FGt(b, a)

\* a + b
FAdd(a, b) ==
    CASE IsNaN(a) \/ IsNaN(b) -> NaN
      [] IsInf(a) /\ IsInf(b) -> IF a.k = b.k THEN a ELSE NaN
      [] IsInf(a) -> a
      [] IsInf(b) -> b
      [] OTHER    -> Rat(a.n * b.d + b.n * a.d, a.d * b.d)

\* a * b
FMul(a, b) ==
    CASE IsNaN(a) \/ IsNaN(b) -> NaN
      [] IsInf(a) \/ IsInf(b) ->
            IF Sign(a) * Sign(b) = 0 THEN NaN ELSE Signed(Sign(a) * Sign(b))
      [] OTHER -> Rat(a.n * b.n, a.d * b.d)

\* what a division by zero of two Python floats raises
ZeroDivisionError == [k |-> "ZeroDivisionError", n |-> 0, d |-> 1]

\* a / b
FDiv(a, b) ==
    CASE IsNum(b) /\ b.n = 0 -> ZeroDivisionError
      [] IsNaN(a) \/ IsNaN(b) -> NaN
      [] IsInf(a) /\ IsInf(b) -> NaN
      [] IsInf(a) -> Signed(Sign(a) * Sign(b))
      [] IsInf(b) -> Zero
      [] OTHER    -> Rat(a.n * b.d, a.d * b.n)

\* Series.fillna(0) on one cell
fillna(a) == IF IsNaN(a) THEN Zero ELSE a

\* DataFrame.replace([np.inf, -np.inf], 0) on one cell
replace_inf(a) == IF IsInf(a) THEN Zero ELSE a

RECURSIVE Pow10(_)
Pow10(e) == IF e = 0 THEN 1 ELSE 10 * Pow10(e - 1)

\* round(decimals): to the nearest multiple of 10^-decimals, halves to even
Round(a, decimals) ==
    IF ~IsNum(a) THEN a
    ELSE LET s == Pow10(decimals)
             q == (a.n * s) \div a.d
             r == (a.n * s) % a.d
             up == \/ 2 * r > a.d
                   \/ 2 * r = a.d /\ q % 2 = 1
         IN  Rat(IF up THEN q + 1 ELSE q, s)

----------------------------------------------------------------------------
(* Sequences                                                               *)

Range(s) == {s[i] : i \in DOMAIN s}

Min(a, b) == IF a < b THEN a ELSE b

\* the first n elements of s (all of s when it is shorter)
Head_n(s, n) == SubSeq(s, 1, Min(n, Len(s)))

RECURSIVE SelectIdx(_, _, _)
\* the subsequence of s at the indices in keep, in order
SelectIdx(s, keep, i) ==
    IF i > Len(s) THEN <<>>
    ELSE (IF i \in keep THEN <<s[i]>> ELSE <<>>) \o SelectIdx(s, keep, i + 1)

RECURSIVE FSum(_, _)
\* the sum of vals[i] for i in 1..upto, added left to right
FSum(vals, upto) ==
    IF upto = 0 THEN Zero ELSE FAdd(FSum(vals, upto - 1), vals[upto])

Column(t, col) == [i \in DOMAIN t |-> t[i][col]]

\* Series.sum()
sum(s) == FSum(s, Len(s))

\* Series.mean(): NaN for an empty series
mean(s) == IF Len(s) = 0 THEN NaN ELSE FDiv(sum(s), Int2F(Len(s)))

\* a running sum that leaves the current row out
cumsum_exclusive(s) == [i \in DOMAIN s |-> FSum(s, i - 1)]

\* Series.cumsum()
cumsum(s) == [i \in DOMAIN s |-> FSum(s, i)]

----------------------------------------------------------------------------
(* Timestamps: a record [y, m, d, h] (year, month, day of month, hour)     *)

\* the position of a timestamp on the time axis
TsKey(ts) == ((ts.y * 12 + (ts.m - 1)) * 31 + (ts.d - 1)) * 24 + ts.h

month_order ==
    <<"January", "February", "March", "April", "May", "June", "July",
      "August", "September", "October", "November", "December">>

day_order ==
    <<"Monday", "Tuesday", "Wednesday", "Thursday", "Friday", "Saturday",
      "Sunday">>

month_name(ts) == month_order[ts.m]

\* 1 = Monday .. 7 = Sunday, by the Gregorian calendar
Weekday(ts) ==
    LET t  == <<0, 3, 2, 5, 0, 3, 5, 1, 4, 6, 2, 4>>
        yy == IF ts.m < 3 THEN ts.y - 1 ELSE ts.y
        w  == (yy + yy \div 4 - yy \div 100 + yy \div 400 + t[ts.m] + ts.d) % 7
    IN  IF w = 0 THEN 7 ELSE w

day_name(ts) == day_order[Weekday(ts)]

----------------------------------------------------------------------------
(* Sorting.  sort_index and sort_values run with the default               *)
(* kind='quicksort', which is not stable: rows with equal keys may come    *)
(* out in any order.  A table that is already in the requested order is    *)
(* returned as it is.                                                      *)

IsMonotonic(key, ascending) ==
    \A i \in 1..(Len(key) - 1) :
        IF ascending THEN key[i] <= key[i + 1] ELSE key[i] >= key[i + 1]

RECURSIVE Orders(_, _, _)
\* every arrangement of the indices S in which key is monotonic
Orders(S, key, ascending) ==
    IF S = {} THEN {<<>>}
    ELSE LET firsts == {i \in S : \A j \in S :
                            IF ascending THEN key[i] <= key[j]
                                         ELSE key[i] >= key[j]}
         IN  UNION {{<<i>> \o o : o \in Orders(S \ {i}, key, ascending)} :
                    i \in firsts}

\* the orders an argsort of key may return
argsort(key, ascending) ==
    IF IsMonotonic(key, ascending) THEN {[i \in DOMAIN key |-> i]}
    ELSE Orders(DOMAIN key, key, ascending)

Take(t, order) == [i \in DOMAIN order |-> t[order[i]]]

\* the tables DataFrame.sort_index may return; the index is Activity Date
sort_index(t, ascending) ==
    {Take(t, o) : o \in argsort([i \in DOMAIN t |-> TsKey(t[i].Activity_Date)],
                                ascending)}

----------------------------------------------------------------------------
(* load_data.  A csv row is a record with one field per column the script  *)
(* knows: Activity_Date, Activity_Type, Activity_Name and the optional     *)
(* Distance_1 ("Distance.1"), Distance, Moving_Time, Total_Elevation_Gain, *)
(* Elevation_Gain, Average_Speed, Calories.  A field whose column is not   *)
(* in the header (cols) is never read.                                     *)

Distance_km(c, row) ==
    IF "Distance.1" \in c THEN FDiv(row.Distance_1, Int2F(1000))
    ELSE IF "Distance" \in c THEN row.Distance
    ELSE Zero

Moving_Time_hr(c, row) ==
    IF "Moving Time" \in c THEN FDiv(row.Moving_Time, Int2F(3600))
    ELSE Zero

Elevation_Gain_m(c, row) ==
    IF "Total Elevation Gain" \in c THEN row.Total_Elevation_Gain
    ELSE IF "Elevation Gain" \in c THEN row.Elevation_Gain
    ELSE Zero

\* the lambda with the guard >= 0 in place of > 0
speed_lambda_ge(distance_km, moving_time_hr) ==
    IF FGe(moving_time_hr, Zero) THEN FDiv(distance_km, moving_time_hr)
    ELSE Zero

\* the lambda of df.apply: distance over time, guarded against a zero time
speed_lambda(distance_km, moving_time_hr) ==
    IF FGt(moving_time_hr, Zero) THEN FDiv(distance_km, moving_time_hr)
    ELSE Zero

Average_Speed_kmh(c, row) ==
    IF "Average Speed" \in c THEN FMul(row.Average_Speed, Rat(36, 10))
    ELSE speed_lambda(Distance_km(c, row), Moving_Time_hr(c, row))

Calories(c, row) ==
    IF "Calories" \notin c THEN Zero ELSE row.Calories

\* clean without the replace of infinite values
clean_keeps_inf(a) == fillna(a)

\* fillna(0) of a key column, then the replace of infinite values
clean(a) == replace_inf(fillna(a))

\* one row of the table load_data returns
normalize(c, row) ==
    [Activity_Date     |-> row.Activity_Date,
     Activity_Type     |-> row.Activity_Type,
     Activity_Name     |-> row.Activity_Name,
     Year              |-> row.Activity_Date.y,
     Month             |-> month_name(row.Activity_Date),
     Day_of_Week       |-> day_name(row.Activity_Date),
     Hour_of_Day       |-> row.Activity_Date.h,
     Distance_km       |-> clean(Distance_km(c, row)),
     Moving_Time_hr    |-> clean(Moving_Time_hr(c, row)),
     Elevation_Gain_m  |-> clean(Elevation_Gain_m(c, row)),
     Average_Speed_kmh |-> clean(Average_Speed_kmh(c, row)),
     Calories          |-> clean(Calories(c, row))]

\* the lambda divided by zero on some row
raises(c, rows) ==
    /\ "Average Speed" \notin c
    /\ \E i \in DOMAIN rows : Average_Speed_kmh(c, rows[i]) = ZeroDivisionError

\* df.apply(axis=1) of a table without rows returns a DataFrame, not a
\* Series; assigning it to one column raises ValueError in some pandas
\* versions and yields an empty column in others
empty_apply(c, rows) == "Average Speed" \notin c /\ Len(rows) = 0

\* the tables load_data may return for a csv that loads
load_data(c, rows) ==
    {[i \in DOMAIN t |-> normalize(c, t[i])] : t \in sort_index(rows, TRUE)}

----------------------------------------------------------------------------
(* Sidebar filters                                                         *)

HeadLimit == 20

\* the activity types of the model, in the order sorted() puts them
type_order == <<"Hike", "Ride", "Run">>

TypeRank(t) == CHOOSE i \in DOMAIN type_order : type_order[i] = t

RECURSIVE SortedInts(_, _)
\* sorted(S) of a set of integers, reverse = descending
SortedInts(S, reverse) ==
    IF S = {} THEN <<>>
    ELSE LET x == CHOOSE v \in S : \A w \in S :
                      IF reverse THEN v >= w ELSE v <= w
         IN  <<x>> \o SortedInts(S \ {x}, reverse)

\* sorted(S) of a set of activity types
SortedTypes(S) ==
    LET r == SortedInts({TypeRank(t) : t \in S}, FALSE)
    IN  [i \in DOMAIN r |-> type_order[r[i]]]

\* df[mask]: the rows of t at the positions in mask, in order
Rows(t, mask) == SelectIdx(t, mask, 1)

AllYears == [label |-> "All Years", year |-> 0]
YearOption(y) == [label |-> "year", year |-> y]

year_options(t) ==
    <<AllYears>> \o
    LET ys == SortedInts({t[i].Year : i \in DOMAIN t}, TRUE)
    IN  [i \in DOMAIN ys |-> YearOption(ys[i])]

filter_year(t, year) ==
    IF year = AllYears THEN t
    ELSE Rows(t, {i \in DOMAIN t : YearOption(t[i].Year) = year})

\* the type options taken from the whole table, not the year's rows
type_options_of_df(t) ==
    <<"All Activities">> \o SortedTypes({df[i].Activity_Type : i \in DOMAIN df})

type_options(t) ==
    <<"All Activities">> \o SortedTypes({t[i].Activity_Type : i \in DOMAIN t})

\* filter_types with an empty selection matching no row
filter_types_strict(t, types) ==
    IF "All Activities" \in types THEN t
    ELSE Rows(t, {i \in DOMAIN t : t[i].Activity_Type \in types})

filter_types(t, types) ==
    IF "All Activities" \in types \/ types = {} THEN t
    ELSE Rows(t, {i \in DOMAIN t : t[i].Activity_Type \in types})

----------------------------------------------------------------------------
(* Top-level metrics                                                       *)

metrics(t) ==
    LET total_activities == Len(t)
        total_distance   == sum(Column(t, "Distance_km"))
        total_time       == sum(Column(t, "Moving_Time_hr"))
        moving           == {i \in DOMAIN t : FGt(t[i].Average_Speed_kmh, Zero)}
    IN  [total_activities |-> total_activities,
         total_distance   |-> total_distance,
         total_time       |-> total_time,
         total_elevation  |-> sum(Column(t, "Elevation_Gain_m")),
         total_calories   |-> sum(Column(t, "Calories")),
         avg_distance     |-> IF total_activities > 0
                              THEN FDiv(total_distance, Int2F(total_activities))
                              ELSE Zero,
         avg_time         |-> IF total_activities > 0
                              THEN FDiv(total_time, Int2F(total_activities))
                              ELSE Zero,
         avg_speed        |-> mean(Column(Rows(t, moving), "Average_Speed_kmh"))]

----------------------------------------------------------------------------
(* Tab 1: distance per month by activity type, cumulative distance         *)

\* the number of the calendar month of a timestamp
MonthIndex(ts) == ts.y * 12 + (ts.m - 1)

\* strftime('%Y-%m') of the month with that number
strftime_Ym(mi) ==
    LET m == (mi % 12) + 1
    IN  ToString(mi \div 12) \o "-" \o (IF m < 10 THEN "0" ELSE "") \o ToString(m)

\* a group summed by the months that occur in it, without the bins between
months_present_sum(g) ==
    LET months == SortedInts({MonthIndex(g[i].Activity_Date) : i \in DOMAIN g}, FALSE)
    IN  [b \in DOMAIN months |->
            LET inbin == {i \in DOMAIN g : MonthIndex(g[i].Activity_Date) = months[b]}
            IN  [Activity_Type |-> g[1].Activity_Type,
                 Activity_Date |-> strftime_Ym(months[b]),
                 Distance_km   |-> sum(Column(Rows(g, inbin), "Distance_km"))]]

\* resample('M').sum() of one group: one bin for every calendar month from
\* the group's first to its last month, the months without rows included
resample_M_sum(g) ==
    LET months == {MonthIndex(g[i].Activity_Date) : i \in DOMAIN g}
        first  == CHOOSE a \in months : \A b \in months : a <= b
        last   == CHOOSE a \in months : \A b \in months : a >= b
    IN  [b \in 1..(last - first + 1) |->
            LET inbin == {i \in DOMAIN g :
                              MonthIndex(g[i].Activity_Date) = first + b - 1}
            IN  [Activity_Type |-> g[1].Activity_Type,
                 Activity_Date |-> strftime_Ym(first + b - 1),
                 Distance_km   |-> sum(Column(Rows(g, inbin), "Distance_km"))]]

\* the groups of groupby('Activity Type'): one per type, in sorted order
groupby_type(t) ==
    LET keys == SortedTypes({t[i].Activity_Type : i \in DOMAIN t})
    IN  [k \in DOMAIN keys |->
            Rows(t, {i \in DOMAIN t : t[i].Activity_Type = keys[k]})]

RECURSIVE Concat(_, _)
\* the first n sequences of ss, joined
Concat(ss, n) == IF n = 0 THEN <<>> ELSE Concat(ss, n - 1) \o ss[n]

monthly_typed(t) ==
    LET groups == groupby_type(t)
        parts  == [k \in DOMAIN groups |-> resample_M_sum(groups[k])]
    IN  Concat(parts, Len(parts))

\* the cumulative distance tables: sort_index, then the cumsum column
cumulative(t) ==
    {[i \in DOMAIN st |->
        [Activity_Date       |-> st[i].Activity_Date,
         Activity_Type       |-> st[i].Activity_Type,
         Distance_km         |-> st[i].Distance_km,
         Cumulative_Distance |-> cumsum(Column(st, "Distance_km"))[i]]] :
     st \in sort_index(t, TRUE)}

----------------------------------------------------------------------------
(* Tab 2: heatmaps.  A table is its index labels, its column labels and    *)
(* the cells that hold a value; every other cell of the grid is NaN.       *)

count(s) == Int2F(Len(s))

aggregate(aggfunc, s) ==
    CASE aggfunc = "sum"   -> sum(s)
      [] aggfunc = "mean"  -> mean(s)
      [] aggfunc = "count" -> count(s)

\* pivot_table: one cell for each (index, column) pair that has rows
pivot_table(t, index, columns, values, aggfunc) ==
    [cell \in {<<t[r][index], t[r][columns]>> : r \in DOMAIN t} |->
        aggregate(aggfunc,
                  Column(Rows(t, {r \in DOMAIN t :
                                    t[r][index] = cell[1] /\ t[r][columns] = cell[2]}),
                         values))]

\* reindex: the grid of the given labels, keeping the cells it has
reindex(cells, index, columns) ==
    [index   |-> index,
     columns |-> columns,
     cells   |-> [cell \in {x \in DOMAIN cells :
                               x[1] \in Range(index) /\ x[2] \in Range(columns)} |->
                    cells[cell]]]

hour_day(t) ==
    reindex(pivot_table(t, "Hour_of_Day", "Day_of_Week", "Distance_km", "sum"),
            SortedInts({t[i].Hour_of_Day : i \in DOMAIN t}, FALSE), day_order)

day_month(t, values, aggfunc) ==
    reindex(pivot_table(t, "Day_of_Week", "Month", values, aggfunc),
            day_order, month_order)

heatmaps(t) ==
    [hour_day_data |-> hour_day(t),
     heatmap_dist  |-> day_month(t, "Distance_km", "sum"),
     heatmap_speed |-> day_month(t, "Average_Speed_kmh", "mean"),
     heatmap_count |-> day_month(t, "Activity_Name", "count")]

----------------------------------------------------------------------------
(* Tab 3: breakdown by activity type                                       *)

\* agg_row counting only the rows with a positive speed
agg_row_moving(g) ==
    LET moving == {i \in DOMAIN g : FGt(g[i].Average_Speed_kmh, Zero)}
    IN  [Activity_Type     |-> g[1].Activity_Type,
         Total_Activities  |-> Len(Rows(g, moving)),
         Total_Distance_km |-> sum(Column(g, "Distance_km")),
         Total_Time_hr     |-> sum(Column(g, "Moving_Time_hr")),
         Total_Elevation_m |-> sum(Column(g, "Elevation_Gain_m")),
         Avg_Speed_kmh     |-> mean(Column(Rows(g, moving), "Average_Speed_kmh"))]

\* one row of groupby('Activity Type').agg(...)
agg_row(g) ==
    LET moving == {i \in DOMAIN g : FGt(g[i].Average_Speed_kmh, Zero)}
    IN  [Activity_Type     |-> g[1].Activity_Type,
         Total_Activities  |-> Len(g),
         Total_Distance_km |-> sum(Column(g, "Distance_km")),
         Total_Time_hr     |-> sum(Column(g, "Moving_Time_hr")),
         Total_Elevation_m |-> sum(Column(g, "Elevation_Gain_m")),
         Avg_Speed_kmh     |-> mean(Column(Rows(g, moving), "Average_Speed_kmh"))]

\* the display formatting of one breakdown row
format_row(r) ==
    [r EXCEPT !.Total_Distance_km = Round(@, 1),
              !.Total_Time_hr     = Round(@, 1),
              !.Total_Elevation_m = Round(@, 0),
              !.Avg_Speed_kmh     = Round(fillna(@), 1)]

\* the number of values of s that a is greater than
RankIn(s, a) == Cardinality({j \in DOMAIN s : FGt(a, s[j])})

\* the tables sort_values(by='Total_Distance_km', ascending=False) may return
sort_by_distance(t) ==
    LET d   == Column(t, "Total_Distance_km")
        key == [i \in DOMAIN t |-> RankIn(d, d[i])]
    IN  {Take(t, o) : o \in Orders(DOMAIN t, key, FALSE)}

summary(t) ==
    LET groups == groupby_type(t)
        agg    == [k \in DOMAIN groups |-> agg_row(groups[k])]
    IN  {[i \in DOMAIN st |-> format_row(st[i])] : st \in sort_by_distance(agg)}

----------------------------------------------------------------------------
(* Tab 4: recent activities                                                *)

display_row(row) ==
    [Activity_Date     |-> row.Activity_Date,
     Activity_Name     |-> row.Activity_Name,
     Activity_Type     |-> row.Activity_Type,
     Distance_km       |-> Round(row.Distance_km, 1),
     Moving_Time_hr    |-> Round(row.Moving_Time_hr, 1),
     Average_Speed_kmh |-> Round(row.Average_Speed_kmh, 1),
     Elevation_Gain_m  |-> Round(row.Elevation_Gain_m, 1)]

\* the first rows of the table in ascending order
recent_oldest_first(t) ==
    {LET top == Head_n(st, HeadLimit)
     IN  [i \in DOMAIN top |-> display_row(top[i])] :
     st \in sort_index(t, TRUE)}

recent_activities(t) ==
    {LET top == Head_n(st, HeadLimit)
     IN  [i \in DOMAIN top |-> display_row(top[i])] :
     st \in sort_index(t, FALSE)}

----------------------------------------------------------------------------
(* The script run                                                          *)

NoKpi ==
    [total_activities |-> 0, total_distance |-> Zero, total_time |-> Zero,
     total_elevation |-> Zero, total_calories |-> Zero, avg_distance |-> Zero,
     avg_time |-> Zero, avg_speed |-> Zero]

\* the state of a run before its first statement, for an input file
Start(found, header, rows) ==
    /\ pc = "start"
    /\ file_found = found
    /\ cols = header
    /\ csv = rows
    /\ df = <<>>
    /\ all_years = <<>>
    /\ selected_year = AllYears
    /\ all_types = <<>>
    /\ selected_types = {}
    /\ df_filtered = <<>>
    /\ shown = "nothing"
    /\ computed = {}
    /\ kpi = NoKpi
    /\ df_monthly_typed = <<>>
    /\ df_cumulative = <<>>
    /\ pivots = <<>>
    /\ df_summary = <<>>
    /\ recent = <<>>

outputs == <<kpi, df_monthly_typed, df_cumulative, pivots, df_summary, recent>>
choices == <<all_years, selected_year, all_types, selected_types, df_filtered>>
input   == <<file_found, cols, csv>>

\* df = load_data(): the file is missing (st.error, st.stop), or the
\* normalization raises, or the table is returned
LoadData ==
    /\ pc = "start"
    /\ \/ /\ ~file_found
          /\ shown' = "error"
          /\ pc' = "stopped"
          /\ df' = df
       \/ /\ file_found
          /\ raises(cols, csv) \/ empty_apply(cols, csv)
          /\ pc' = IF raises(cols, csv) THEN "ZeroDivisionError" ELSE "ValueError"
          /\ UNCHANGED <<shown, df>>
       \/ /\ file_found
          /\ ~raises(cols, csv)
          /\ df' \in load_data(cols, csv)
          /\ pc' = "loaded"
          /\ shown' = shown
    /\ UNCHANGED <<input, choices, computed, outputs>>

\* the year selectbox and the filter by year
SelectYear ==
    /\ pc = "loaded"
    /\ all_years' = year_options(df)
    /\ selected_year' \in Range(all_years')
    /\ df_filtered' = filter_year(df, selected_year')
    /\ pc' = "year"
    /\ UNCHANGED <<input, df, all_types, selected_types, shown, computed, outputs>>

\* the activity type multiselect and the filter by activity type
SelectTypes ==
    /\ pc = "year"
    /\ all_types' = type_options(df_filtered)
    /\ selected_types' \in SUBSET Range(all_types')
    /\ df_filtered' = filter_types(df_filtered, selected_types')
    /\ pc' = "filtered"
    /\ UNCHANGED <<input, df, all_years, selected_year, shown, computed, outputs>>

\* nothing matches the filters: st.warning, st.stop
EmptyStop ==
    /\ pc = "filtered"
    /\ Len(df_filtered) = 0
    /\ shown' = "warning"
    /\ pc' = "stopped"
    /\ UNCHANGED <<input, df, choices, computed, outputs>>

\* Metrics without the stop on an empty table before it
Metrics_unchecked ==
    /\ pc = "filtered"
    /\ kpi' = metrics(df_filtered)
    /\ computed' = computed \cup {"kpi"}
    /\ pc' = "tab1"
    /\ UNCHANGED <<input, df, choices, shown, df_monthly_typed, df_cumulative,
                   pivots, df_summary, recent>>

Metrics ==
    /\ pc = "filtered"
    /\ Len(df_filtered) # 0
    /\ kpi' = metrics(df_filtered)
    /\ computed' = computed \cup {"kpi"}
    /\ pc' = "tab1"
    /\ UNCHANGED <<input, df, choices, shown, df_monthly_typed, df_cumulative,
                   pivots, df_summary, recent>>

Tab1 ==
    /\ pc = "tab1"
    /\ df_monthly_typed' = monthly_typed(df_filtered)
    /\ df_cumulative' \in cumulative(df_filtered)
    /\ computed' = computed \cup {"df_monthly_typed", "df_cumulative"}
    /\ pc' = "tab2"
    /\ UNCHANGED <<input, df, choices, shown, kpi, pivots, df_summary, recent>>

Tab2 ==
    /\ pc = "tab2"
    /\ pivots' = heatmaps(df_filtered)
    /\ computed' = computed \cup {"pivots"}
    /\ pc' = "tab3"
    /\ UNCHANGED <<input, df, choices, shown, kpi, df_monthly_typed,
                   df_cumulative, df_summary, recent>>

Tab3 ==
    /\ pc = "tab3"
    /\ df_summary' \in summary(df_filtered)
    /\ computed' = computed \cup {"df_summary"}
    /\ pc' = "tab4"
    /\ UNCHANGED <<input, df, choices, shown, kpi, df_monthly_typed,
                   df_cumulative, pivots, recent>>

Tab4 ==
    /\ pc = "tab4"
    /\ recent' \in recent_activities(df_filtered)
    /\ computed' = computed \cup {"recent"}
    /\ pc' = "done"
    /\ UNCHANGED <<input, df, choices, shown, kpi, df_monthly_typed,
                   df_cumulative, pivots, df_summary>>

\* a widget changes: the script runs again from the top, load_data cached
Rerun ==
    /\ pc = "done" \/ (pc = "stopped" /\ shown = "warning")
    /\ pc' = "loaded"
    /\ all_years' = <<>>
    /\ selected_year' = AllYears
    /\ all_types' = <<>>
    /\ selected_types' = {}
    /\ df_filtered' = <<>>
    /\ shown' = "nothing"
    /\ computed' = {}
    /\ kpi' = NoKpi
    /\ df_monthly_typed' = <<>>
    /\ df_cumulative' = <<>>
    /\ pivots' = <<>>
    /\ df_summary' = <<>>
    /\ recent' = <<>>
    /\ UNCHANGED <<input, df>>

Next ==
    \/ LoadData
    \/ SelectYear
    \/ SelectTypes
    \/ EmptyStop
    \/ Metrics
    \/ Tab1
    \/ Tab2
    \/ Tab3
    \/ Tab4
    \/ Rerun

----------------------------------------------------------------------------
(* Input files                                                             *)

Timestamp(y, m, d, h) == [y |-> y, m |-> m, d |-> d, h |-> h]

OptionalColumns ==
    {"Distance.1", "Distance", "Moving Time", "Total Elevation Gain",
     "Elevation Gain", "Average Speed", "Calories"}

\* a csv row; the cell of a column the file does not have is left NaN
CsvRow(date, type, name, dist1, dist, mt, teg, eg, avs, cal) ==
    [Activity_Date |-> date, Activity_Type |-> type, Activity_Name |-> name,
     Distance_1 |-> dist1, Distance |-> dist, Moving_Time |-> mt,
     Total_Elevation_Gain |-> teg, Elevation_Gain |-> eg,
     Average_Speed |-> avs, Calories |-> cal]

RECURSIVE Tables(_, _)
\* the sequences of at most n rows of R
Tables(R, n) ==
    IF n = 0 THEN {<<>>}
    ELSE LET shorter == Tables(R, n - 1)
         IN  shorter \cup {Append(t, r) : t \in {u \in shorter : Len(u) = n - 1},
                                          r \in R}

(* Files of a few activities, with distance in metres and moving time in  *)
(* seconds and no Average Speed column.                                    *)
MaxRows == 2

ActivityDates ==
    {Timestamp(2023, 1, 5, 7), Timestamp(2023, 1, 20, 18), Timestamp(2024, 2, 1, 7)}

\* <<activity type, metres, seconds>>
Efforts ==
    {<<"Run", Int2F(5000), Int2F(1800)>>,
     <<"Run", Int2F(0), Int2F(0)>>,
     <<"Ride", Int2F(20000), Int2F(3600)>>,
     <<"Ride", Int2F(-1000), Int2F(600)>>}

ActivityRows ==
    {CsvRow(date, e[1], "Morning", e[2], NaN, e[3], Int2F(12), NaN, NaN, Int2F(300)) :
        date \in ActivityDates, e \in Efforts}

ActivityHeader == {"Distance.1", "Moving Time", "Total Elevation Gain", "Calories"}

Init ==
    \/ Start(FALSE, {}, <<>>)
    \/ \E rows \in Tables(ActivityRows, MaxRows) : Start(TRUE, ActivityHeader, rows)

Spec == Init /\ [][Next]_vars

(* Files of one activity, or none, under every header: the cells of the   *)
(* optional columns range over missing, infinite, zero, negative and      *)
(* ordinary values.                                                        *)
CellValues ==
    [Distance_1           |-> {NaN, PosInf, Int2F(3000), Int2F(-1500)},
     Distance             |-> {NaN, Int2F(5)},
     Moving_Time          |-> {NaN, PosInf, NegInf, Int2F(0), Int2F(1800)},
     Total_Elevation_Gain |-> {NaN, Int2F(7)},
     Elevation_Gain       |-> {PosInf, Int2F(9)},
     Average_Speed        |-> {NaN, PosInf, Int2F(0), Rat(5, 2)},
     Calories             |-> {NaN, NegInf, Int2F(100)}]

\* the values of a column's cell under a header
Cells(header, column, field) ==
    IF column \in header THEN CellValues[field] ELSE {NaN}

OneRowFiles(header) ==
    {<<CsvRow(Timestamp(2023, 1, 5, 7), "Run", "Morning", dist1, dist, mt, teg, eg, avs, cal)>> :
        dist1 \in Cells(header, "Distance.1", "Distance_1"),
        dist  \in Cells(header, "Distance", "Distance"),
        mt    \in Cells(header, "Moving Time", "Moving_Time"),
        teg   \in Cells(header, "Total Elevation Gain", "Total_Elevation_Gain"),
        eg    \in Cells(header, "Elevation Gain", "Elevation_Gain"),
        avs   \in Cells(header, "Average Speed", "Average_Speed"),
        cal   \in Cells(header, "Calories", "Calories")}

InitLoad ==
    \/ Start(FALSE, {}, <<>>)
    \/ \E header \in SUBSET OptionalColumns :
          \E rows \in {<<>>} \cup OneRowFiles(header) : Start(TRUE, header, rows)

SpecLoad == InitLoad /\ [][LoadData]_vars

(* Files of many activities of one type in chronological order, one a day, *)
(* where one activity may carry the timestamp of the one before it.        *)
MaxRecentRows == 22

RecentRow(i, tie) ==
    LET day == IF tie # 0 /\ i > tie THEN i - 1 ELSE i
    IN  CsvRow(Timestamp(2024, 3, day, 6), "Run", ToString(i),
               Int2F(1000 + 50 * i), NaN, Int2F(600), NaN, NaN, NaN, NaN)

RecentFiles ==
    {[i \in 1..n |-> RecentRow(i, tie)] : n \in 0..MaxRecentRows, tie \in 0..MaxRecentRows}

InitRecent ==
    \/ Start(FALSE, {}, <<>>)
    \/ \E rows \in RecentFiles : Start(TRUE, {"Distance.1", "Moving Time"}, rows)

SpecRecent == InitRecent /\ [][Next]_vars

----------------------------------------------------------------------------
(* Properties                                                              *)

key_cols ==
    {"Distance_km", "Moving_Time_hr", "Elevation_Gain_m", "Average_Speed_kmh",
     "Calories"}

\* the key columns of a csv row as derived, before NaN and infinity are replaced
Derived(c, row) ==
    [Distance_km       |-> Distance_km(c, row),
     Moving_Time_hr    |-> Moving_Time_hr(c, row),
     Elevation_Gain_m  |-> Elevation_Gain_m(c, row),
     Average_Speed_kmh |-> Average_Speed_kmh(c, row),
     Calories          |-> Calories(c, row)]

\* the run is past both filters
Filtered ==
    \/ pc \in {"filtered", "tab1", "tab2", "tab3", "tab4", "done"}
    \/ pc = "stopped" /\ shown = "warning"

Views ==
    {"kpi", "df_monthly_typed", "df_cumulative", "pivots", "df_summary", "recent"}

\* the number of positions of t that hold the row r
Count(t, r) == Cardinality({i \in DOMAIN t : t[i] = r})

\* C1: in the table load_data returns, every row's Distance_km,
\* Moving_Time_hr, Elevation_Gain_m, Average_Speed_kmh and Calories is a
\* finite number, and it is 0 wherever the derived value was missing, NaN or
\* infinite.  (The files of SpecLoad have at most one row, so row i of df is
\* row i of the csv.)
C1_KeyColumnsFinite ==
    pc = "loaded" =>
        /\ Len(df) = Len(csv)
        /\ \A i \in DOMAIN df : \A c \in key_cols :
              /\ IsNum(df[i][c])
              /\ ~IsNum(Derived(cols, csv[i])[c]) => df[i][c] = Zero

\* a loaded row whose derived speed was NaN (infinite distance over infinite
\* time) and whose derived distance was infinite
C1_Witness ==
    /\ pc = "loaded"
    /\ Len(df) = 1
    /\ "Average Speed" \notin cols
    /\ IsNaN(Average_Speed_kmh(cols, csv[1]))
    /\ IsInf(Distance_km(cols, csv[1]))
    /\ df[1].Average_Speed_kmh = Zero

\* C9: without an Average Speed column, every row's Average_Speed_kmh in the
\* normalized table is Distance_km / Moving_Time_hr when Moving_Time_hr > 0
\* and 0 otherwise, and load_data never raises ZeroDivisionError; with the
\* column, the value is the column times 3.6 (5 * kmh = 18 * m/s), whatever
\* distance and time are.
C9_DerivedSpeed ==
    /\ pc # "ZeroDivisionError"
    /\ pc = "loaded" =>
         \A i \in DOMAIN df :
            IF "Average Speed" \notin cols
            THEN df[i].Average_Speed_kmh =
                    IF df[i].Moving_Time_hr.n > 0
                    THEN Rat(df[i].Distance_km.n * df[i].Moving_Time_hr.d,
                             df[i].Distance_km.d * df[i].Moving_Time_hr.n)
                    ELSE Zero
            ELSE IsNum(csv[i].Average_Speed) =>
                    /\ df[i].Average_Speed_kmh.n * 5 * csv[i].Average_Speed.d
                         = 18 * csv[i].Average_Speed.n * df[i].Average_Speed_kmh.d
                    /\ IsNum(df[i].Average_Speed_kmh)

\* a row with Moving Time 0 and no Average Speed column loaded with speed 0
C9_Witness ==
    /\ pc = "loaded"
    /\ Len(df) = 1
    /\ "Average Speed" \notin cols
    /\ "Moving Time" \in cols
    /\ csv[1].Moving_Time = Zero
    /\ IsNum(Distance_km(cols, csv[1])) /\ Distance_km(cols, csv[1]) # Zero
    /\ df[1].Average_Speed_kmh = Zero

\* the rows of the filtered table with a positive speed
Moving == {i \in DOMAIN df_filtered : df_filtered[i].Average_Speed_kmh.n > 0}

\* C2: the summary's average speed is the mean of Average_Speed_kmh over the
\* filtered rows with Average_Speed_kmh > 0, and 0 when no filtered row has a
\* positive speed.
C2_AvgSpeed ==
    "kpi" \in computed =>
        kpi.avg_speed =
            IF Moving = {} THEN Zero
            ELSE FDiv(sum(SelectIdx(Column(df_filtered, "Average_Speed_kmh"), Moving, 1)),
                      Int2F(Cardinality(Moving)))

Matches(row) ==
    /\ selected_year = AllYears \/ selected_year = YearOption(row.Year)
    /\ \/ "All Activities" \in selected_types
       \/ selected_types = {}
       \/ row.Activity_Type \in selected_types

\* C5: the filtered table holds exactly the rows of the normalized table
\* whose Year is the selected year (every year for "All Years") and whose
\* Activity Type is selected (every type when "All Activities" is selected
\* or nothing is), each as often as the table holds it and in timestamp
\* order; with "All Years" and all or no types it is the whole table.
C5_FilteredRows ==
    Filtered =>
        /\ \A r \in Range(df) \cup Range(df_filtered) :
              Count(df_filtered, r) = IF Matches(r) THEN Count(df, r) ELSE 0
        /\ \A i \in 1..(Len(df_filtered) - 1) :
              TsKey(df_filtered[i].Activity_Date) <= TsKey(df_filtered[i + 1].Activity_Date)
        /\ (/\ selected_year = AllYears
            /\ "All Activities" \in selected_types \/ selected_types = {})
              => df_filtered = df

\* one year and one type selected, keeping some rows and dropping others
C5_Witness ==
    /\ pc = "filtered"
    /\ selected_year = YearOption(2023)
    /\ selected_types = {"Run"}
    /\ Len(df_filtered) = 1
    /\ Len(df) = 2

\* C6: a filtered table without rows makes the run show the warning and
\* stop with no view computed; a filtered table with rows is never followed
\* by the warning, and the run that reaches its end has computed every view.
C6_EmptyStops ==
    /\ [](Filtered /\ Len(df_filtered) = 0 => computed = {} /\ pc \in {"filtered", "stopped"})
    /\ [](Filtered /\ Len(df_filtered) > 0 => shown = "nothing" /\ pc # "stopped")
    /\ [](pc = "stopped" => computed = {} /\ shown \in {"warning", "error"})
    /\ [](pc = "done" => computed = Views /\ Len(df_filtered) > 0)
    /\ [][pc = "filtered" =>
            IF Len(df_filtered) = 0
            THEN pc' = "stopped" /\ shown' = "warning" /\ computed' = {}
            ELSE pc' = "tab1" /\ "kpi" \in computed']_vars

\* the run stopped with the warning
C6_Witness ==
    /\ pc = "stopped"
    /\ shown = "warning"
    /\ Len(df_filtered) = 0
    /\ computed = {}

\* C7: the breakdown table has one row per Activity Type of the filtered
\* table, and its Total_Activities add up to the summary's row count.
C7_BreakdownCounts ==
    "df_summary" \in computed =>
        /\ {df_summary[i].Activity_Type : i \in DOMAIN df_summary}
             = {df_filtered[i].Activity_Type : i \in DOMAIN df_filtered}
        /\ \A i, j \in DOMAIN df_summary :
              df_summary[i].Activity_Type = df_summary[j].Activity_Type => i = j
        /\ FSum([i \in DOMAIN df_summary |-> Int2F(df_summary[i].Total_Activities)],
                Len(df_summary)) = Int2F(kpi.total_activities)
        /\ kpi.total_activities = Len(df_filtered)

\* a breakdown of two types, one of them with a zero-speed activity
C7_Witness ==
    /\ "df_summary" \in computed
    /\ Len(df_summary) = 2
    /\ Len(df_filtered) = 2
    /\ \E i \in DOMAIN df_filtered : df_filtered[i].Average_Speed_kmh = Zero

\* the filtered rows of a type in the calendar month with a number
InMonth(type, mi) ==
    {i \in DOMAIN df_filtered :
        /\ df_filtered[i].Activity_Type = type
        /\ MonthIndex(df_filtered[i].Activity_Date) = mi}

TypesFiltered == {df_filtered[i].Activity_Type : i \in DOMAIN df_filtered}

\* the month numbers in which the filtered table has rows of the type
MonthsOf(type) ==
    {MonthIndex(df_filtered[i].Activity_Date) :
        i \in {j \in DOMAIN df_filtered : df_filtered[j].Activity_Type = type}}

\* the entries of a type are one per month of months, in ascending month
\* order, each labelled YYYY-MM with the sum of the type's distances in it
BucketsOf(type, months) ==
    LET ms == SortedInts(months, FALSE)
        ks == {k \in DOMAIN df_monthly_typed : df_monthly_typed[k].Activity_Type = type}
    IN  /\ Cardinality(ks) = Len(ms)
        /\ \A k \in ks :
              LET mi == ms[Cardinality({k2 \in ks : k2 <= k})]
              IN  /\ df_monthly_typed[k].Activity_Date = strftime_Ym(mi)
                  /\ df_monthly_typed[k].Distance_km =
                        sum(SelectIdx(Column(df_filtered, "Distance_km"),
                                      InMonth(type, mi), 1))

\* C8 as stated: the monthly table has one entry for each (type, month)
\* that occurs among the filtered rows and no other entry, holding the sum of
\* their distances, labelled YYYY-MM, ascending within each type.
C8_Original ==
    "df_monthly_typed" \in computed =>
        /\ {df_monthly_typed[k].Activity_Type : k \in DOMAIN df_monthly_typed} = TypesFiltered
        /\ \A type \in TypesFiltered : BucketsOf(type, MonthsOf(type))

\* C8 amended: for each type of the filtered table the monthly table has one
\* entry for every calendar month from the type's first month to its last,
\* holding the sum of the type's distances in that month (0 for a month
\* between without rows of the type), labelled YYYY-MM, ascending within
\* each type; the rows (2023-01-05 Run 5 km) and (2023-01-20 Ride 20 km)
\* give the bucket "2023-01" with Run = 5 and Ride = 20.
C8_MonthlyBuckets ==
    "df_monthly_typed" \in computed =>
        /\ {df_monthly_typed[k].Activity_Type : k \in DOMAIN df_monthly_typed} = TypesFiltered
        /\ \A type \in TypesFiltered :
              BucketsOf(type, UNION {a..b : a, b \in MonthsOf(type)})
        /\ (/\ Len(df_filtered) = 2
            /\ \E i, j \in DOMAIN df_filtered :
                  /\ df_filtered[i].Activity_Date = Timestamp(2023, 1, 5, 7)
                  /\ df_filtered[i].Activity_Type = "Run"
                  /\ df_filtered[i].Distance_km = Int2F(5)
                  /\ df_filtered[j].Activity_Date = Timestamp(2023, 1, 20, 18)
                  /\ df_filtered[j].Activity_Type = "Ride"
                  /\ df_filtered[j].Distance_km = Int2F(20))
              => \E a, b \in DOMAIN df_monthly_typed :
                    /\ Len(df_monthly_typed) = 2
                    /\ df_monthly_typed[a] = [Activity_Type |-> "Run",
                            Activity_Date |-> "2023-01", Distance_km |-> Int2F(5)]
                    /\ df_monthly_typed[b] = [Activity_Type |-> "Ride",
                            Activity_Date |-> "2023-01", Distance_km |-> Int2F(20)]

\* two runs thirteen months apart: fourteen buckets, twelve of them empty
C8_Witness ==
    /\ "df_monthly_typed" \in computed
    /\ Len(df_filtered) = 2
    /\ TypesFiltered = {"Run"}
    /\ Len(df_monthly_typed) = 14
    /\ df_monthly_typed[1].Activity_Date = "2023-01"
    /\ df_monthly_typed[2] = [Activity_Type |-> "Run", Activity_Date |-> "2023-02",
                               Distance_km |-> Zero]
    /\ df_monthly_typed[14].Activity_Date = "2024-02"

\* C10: a table with rows, filtered by a year and by types taken from the
\* options the sidebar offers, keeps at least one row; the run stops with
\* the warning only when the normalized table has no rows.
C10_OfferedSelectionsMatch ==
    /\ Filtered =>
         /\ selected_year \in Range(all_years)
         /\ selected_types \subseteq Range(all_types)
         /\ Len(df) > 0 => Len(df_filtered) > 0
    /\ (pc = "stopped" /\ shown = "warning") => Len(df) = 0

\* one year and one type selected in a table that has other years and types
C10_Witness ==
    /\ pc = "filtered"
    /\ selected_year = YearOption(2024)
    /\ selected_types = {"Ride"}
    /\ Len(df) = 2
    /\ Len(df_filtered) = 1
    /\ Len(all_years) = 3

\* the timestamps of the filtered table from the latest down, HeadLimit at most
LatestStamps ==
    [i \in 1..Min(HeadLimit, Len(df_filtered)) |->
        df_filtered[Len(df_filtered) + 1 - i].Activity_Date]

\* the row of the recent table is the filtered row at that position
IsRow(r, j) ==
    /\ r.Activity_Name = df_filtered[j].Activity_Name
    /\ r.Activity_Date = df_filtered[j].Activity_Date
    /\ r.Activity_Type = df_filtered[j].Activity_Type

\* C4 as stated, for a filtered table of more than HeadLimit rows: the recent
\* table holds exactly HeadLimit rows, the latest ones, latest first, rows
\* with equal timestamps in the order they have in the filtered table.
C4_Original ==
    ("recent" \in computed /\ Len(df_filtered) > HeadLimit) =>
        /\ Len(recent) = HeadLimit
        /\ \A i \in DOMAIN recent : recent[i].Activity_Date = LatestStamps[i]
        /\ \A i \in DOMAIN recent : \E j \in DOMAIN df_filtered : IsRow(recent[i], j)
        /\ \A i, j \in DOMAIN recent :
              (i < j /\ recent[i].Activity_Date = recent[j].Activity_Date)
                => \E a, b \in DOMAIN df_filtered :
                      a < b /\ IsRow(recent[i], a) /\ IsRow(recent[j], b)

\* C4 amended: the recent table holds HeadLimit rows when the filtered table
\* has more, and all rows otherwise; they are distinct rows of the filtered
\* table carrying its latest timestamps, latest first; the order of rows
\* with equal timestamps is not fixed.
C4_RecentRows ==
    "recent" \in computed =>
        /\ Len(recent) = Min(HeadLimit, Len(df_filtered))
        /\ \A i \in DOMAIN recent : recent[i].Activity_Date = LatestStamps[i]
        /\ \A i \in DOMAIN recent : \E j \in DOMAIN df_filtered : IsRow(recent[i], j)
        /\ \A i, j \in DOMAIN recent :
              recent[i].Activity_Name = recent[j].Activity_Name => i = j

\* more than HeadLimit rows, two of the latest with one timestamp, shown in
\* the reverse of their order in the filtered table
C4_Witness ==
    /\ "recent" \in computed
    /\ Len(df_filtered) > HeadLimit
    /\ Len(recent) = HeadLimit
    /\ \E i \in 1..(HeadLimit - 1) : \E a, b \in DOMAIN df_filtered :
          /\ recent[i].Activity_Date = recent[i + 1].Activity_Date
          /\ IsRow(recent[i], b) /\ IsRow(recent[i + 1], a)
          /\ a < b

====
